---- MODULE Spec2Model ----
(***************************************************************************)
(* Model of distro/src/bin/atlas_start.py: the start script of the Atlas   *)
(* server.  An invocation checks the HBase configuration, reads the PID    *)
(* file, probes the recorded process, launches the server with mc.java and *)
(* records its pid with mc.writePid.  Several invocations may run against  *)
(* the same PID file and the same process table.                           *)
(*                                                                         *)
(* The helpers of atlas_config (imported as mc) are not part of the        *)
(* modelled source file; they are modelled from the specification.         *)
(***************************************************************************)
EXTENDS Integers, Sequences, FiniteSets, TLC

(* ---------------------------- bounds ---------------------------------- *)
NumInv   == 2      \* number of invocations of the script
FirstPid == 9      \* smallest process identifier of the process table
NumPids  == 2      \* size of the process table

Invs == 1..NumInv
Pids == FirstPid..(FirstPid + NumPids - 1)

(* ---------------------------- text ------------------------------------ *)
\* Text is a sequence of one-character strings.
Digits     == <<"0", "1", "2", "3", "4", "5", "6", "7", "8", "9">>
Whitespace == {" ", "\n"}

IsDigit(c) == \E d \in 1..10 : Digits[d] = c

DigitVal(c) == (CHOOSE d \in 1..10 : Digits[d] = c) - 1

\* str(n) of a non-negative integer: its decimal digits.
RECURSIVE StrNat(_)
StrNat(n) == IF n < 10 THEN <<Digits[n + 1]>>
             ELSE StrNat(n \div 10) \o <<Digits[(n % 10) + 1]>>

\* Python str() of an integer.
Str(n) == IF n < 0 THEN <<"-">> \o StrNat(0 - n) ELSE StrNat(n)

\* Python str.strip(): drops leading and trailing whitespace.
RECURSIVE LStrip(_)
LStrip(s) == IF s # <<>> /\ Head(s) \in Whitespace THEN LStrip(Tail(s)) ELSE s

RECURSIVE RStrip(_)
RStrip(s) == IF s # <<>> /\ s[Len(s)] \in Whitespace
             THEN RStrip(SubSeq(s, 1, Len(s) - 1)) ELSE s

Strip(s) == RStrip(LStrip(s))

RECURSIVE DigitsVal(_)
DigitsVal(s) == IF s = <<>> THEN 0
                ELSE DigitsVal(SubSeq(s, 1, Len(s) - 1)) * 10 + DigitVal(s[Len(s)])

AllDigits(s) == s # <<>> /\ \A k \in 1..Len(s) : IsDigit(s[k])

\* Python int(text): optional surrounding whitespace, optional sign, one or
\* more decimal digits; anything else raises ValueError (ok = FALSE).
PyInt(text) ==
    LET s    == Strip(text)
        sign == IF s # <<>> /\ Head(s) \in {"-", "+"} THEN Head(s) ELSE ""
        body == IF sign = "" THEN s ELSE Tail(s)
    IN  IF AllDigits(body)
        THEN [ok |-> TRUE,
              val |-> IF sign = "-" THEN 0 - DigitsVal(body) ELSE DigitsVal(body)]
        ELSE [ok |-> FALSE, val |-> 0]

(* ---------------------------- state ----------------------------------- *)
VARIABLES
    platform,            \* "posix", "nt" or "other": mc.ON_POSIX / mc.IS_WINDOWS
    hbase_conf_dir,      \* os.path.exists(hbase_conf_dir)
    storage_backend,     \* line 68: mc.grep(...) != None; only evaluated (and only
                         \* TRUE) when the directory is missing
    metadata_pid_file,   \* content of the PID file, or NoFile
    table,               \* process table: pid -> "free" | "foreign" | "sub"
    pc,                  \* position of each invocation in main()
    pid,                 \* per invocation: the stripped text read from the file
    verdict,             \* per invocation: result of the existing-record check
    process,             \* per invocation: pid of the process it created, 0 if none
    outcome,             \* per invocation: how it ended
    returncode,          \* per invocation: <<>> is None, <<n>> is the integer n
    overlapped           \* history: some invocation began while another was running

vars == <<platform, hbase_conf_dir, storage_backend, metadata_pid_file, table,
          pc, pid, verdict, process, outcome, returncode, overlapped>>

NoFile == <<"<absent>">>

Platforms == {"posix", "nt", "other"}

ON_POSIX   == platform = "posix"
IS_WINDOWS == platform = "nt"

\* PID files an invocation may find: absent, valid identifiers (with and
\* without surrounding whitespace), and records that are no positive integer.
InitialPidFiles ==
    {NoFile,
     Str(FirstPid), Str(FirstPid + 1) \o <<"\n">>,
     <<>>, <<"a", "b", "c">>, <<"0">>, <<"-">> \o Str(FirstPid)}

\* Process tables an invocation may start from: no server is running yet and
\* at most one unrelated process holds a pid of the table.
InitialTables ==
    {t \in [Pids -> {"free", "foreign"}] :
        Cardinality({p \in Pids : t[p] = "foreign"}) <= 1}

Live(p) == p \in Pids /\ table[p] # "free"

LiveSubordinates == {p \in Pids : table[p] = "sub"}

(* ------------------- helpers of atlas_config (mc) --------------------- *)
\* mc.unix_exist_pid(n): signal probe.  The set of results it may give: for
\* a positive n exactly whether n is live; the specification says nothing of
\* a probe of zero or of a negative number, so either answer is possible.
unix_exist_pid(n) == IF n > 0 THEN {Live(n)} ELSE BOOLEAN

\* mc.win_exist_pid(text): process-table lookup of the recorded text.  For
\* the decimal form of a pid of the table exactly whether it is live; for any
\* other text either answer is possible.
win_exist_pid(text) ==
    IF \E p \in Pids : Str(p) = text
    THEN {Live(CHOOSE p \in Pids : Str(p) = text)}
    ELSE BOOLEAN

\* mc.writePid(file, process): the file holds the decimal pid and nothing else.
writePid(p) == Str(p)

(* ------------------- __main__: try / except / sys.exit ---------------- *)
\* Variant of Raised: the handler leaves a returncode of 0.
Raised_Zero(i, out) ==
    /\ pc' = [pc EXCEPT ![i] = "done"]
    /\ outcome' = [outcome EXCEPT ![i] = out]
    /\ returncode' = [returncode EXCEPT ![i] = <<0>>]

\* main() raised an Exception: the handler sets returncode = -1.
Raised(i, out) ==
    /\ pc' = [pc EXCEPT ![i] = "done"]
    /\ outcome' = [outcome EXCEPT ![i] = out]
    /\ returncode' = [returncode EXCEPT ![i] = <<-1>>]

\* main() ran to its end: it has no return statement, so returncode = None.
Returned(i, out) ==
    /\ pc' = [pc EXCEPT ![i] = "done"]
    /\ outcome' = [outcome EXCEPT ![i] = out]
    /\ returncode' = [returncode EXCEPT ![i] = <<>>]

\* sys.exit(returncode): None exits with status 0, an integer with its low
\* eight bits.
ExitStatus(rc) == IF rc = <<>> THEN 0 ELSE rc[1] % 256

\* mc.server_already_running(pid): refuses the start.  It does not return to
\* main (main would otherwise fall through to the launch) and the invocation
\* ends with a failure status.
server_already_running(i) ==
    /\ verdict' = [verdict EXCEPT ![i] = "Running"]
    /\ Raised(i, "Refused")

\* mc.server_pid_not_running(pid): reports the stale record and returns.
server_pid_not_running(i) ==
    /\ verdict' = [verdict EXCEPT ![i] = "Stale"]
    /\ pc' = [pc EXCEPT ![i] = "launch"]
    /\ UNCHANGED <<outcome, returncode>>

(* ---------------------------- main() ---------------------------------- *)
Init ==
    /\ platform \in Platforms
    /\ hbase_conf_dir \in BOOLEAN
    /\ storage_backend \in (IF hbase_conf_dir THEN {FALSE} ELSE BOOLEAN)
    /\ metadata_pid_file \in InitialPidFiles
    /\ table \in InitialTables
    /\ pc = [i \in Invs |-> "start"]
    /\ pid = [i \in Invs |-> <<>>]
    /\ verdict = [i \in Invs |-> "none"]
    /\ process = [i \in Invs |-> 0]
    /\ outcome = [i \in Invs |-> "none"]
    /\ returncode = [i \in Invs |-> <<>>]
    /\ overlapped = FALSE

Running(j) == pc[j] \notin {"start", "done"}

\* Variant of HBaseConf: raises whenever the directory is missing, without
\* looking at the storage backend.
HBaseConf_AlwaysRaise(i) ==
    /\ pc[i] = "start"
    /\ overlapped' = (overlapped \/ \E j \in Invs \ {i} : Running(j))
    /\ IF hbase_conf_dir
       THEN /\ pc' = [pc EXCEPT ![i] = "check"]
            /\ UNCHANGED <<outcome, returncode>>
       ELSE Raised(i, "ConfigError")
    /\ UNCHANGED <<platform, hbase_conf_dir, storage_backend, metadata_pid_file,
                   table, pid, verdict, process>>

\* Lines 64-70: the HBase configuration directory is added to the classpath
\* when it exists; when it does not and the backend is hbase, main raises.
HBaseConf(i) ==
    /\ pc[i] = "start"
    /\ overlapped' = (overlapped \/ \E j \in Invs \ {i} : Running(j))
    /\ IF hbase_conf_dir
       THEN /\ pc' = [pc EXCEPT ![i] = "check"]
            /\ UNCHANGED <<outcome, returncode>>
       ELSE IF storage_backend
            THEN Raised(i, "ConfigError")
            ELSE /\ pc' = [pc EXCEPT ![i] = "check"]
                 /\ UNCHANGED <<outcome, returncode>>
    /\ UNCHANGED <<platform, hbase_conf_dir, storage_backend, metadata_pid_file,
                   table, pid, verdict, process>>

\* Lines 75-79: if the PID file is a file, read and strip its content.
ReadPidFile(i) ==
    /\ pc[i] = "check"
    /\ IF metadata_pid_file # NoFile
       THEN /\ pid' = [pid EXCEPT ![i] = Strip(metadata_pid_file)]
            /\ pc' = [pc EXCEPT ![i] = "probe"]
            /\ UNCHANGED verdict
       ELSE /\ verdict' = [verdict EXCEPT ![i] = "NoRecord"]
            /\ pc' = [pc EXCEPT ![i] = "launch"]
            /\ UNCHANGED pid
    /\ UNCHANGED <<platform, hbase_conf_dir, storage_backend, metadata_pid_file,
                   table, process, outcome, returncode, overlapped>>

\* Variant of CheckPosix: a live record is reported like a stale one and the
\* start goes on.
CheckPosix_NoRefuse(i) ==
    /\ pc[i] = "probe"
    /\ ON_POSIX
    /\ IF PyInt(pid[i]).ok
       THEN server_pid_not_running(i)
       ELSE /\ verdict' = [verdict EXCEPT ![i] = "CorruptRecord"]
            /\ Raised(i, "CorruptRecord")
    /\ UNCHANGED <<platform, hbase_conf_dir, storage_backend, metadata_pid_file,
                   table, pid, process, overlapped>>

\* Variant of CheckPosix: a stale record is removed by the check.
CheckPosix_RemoveStale(i) ==
    /\ pc[i] = "probe"
    /\ ON_POSIX
    /\ IF PyInt(pid[i]).ok
       THEN \E alive \in unix_exist_pid(PyInt(pid[i]).val) :
               IF alive THEN /\ server_already_running(i)
                             /\ UNCHANGED metadata_pid_file
                        ELSE /\ server_pid_not_running(i)
                             /\ metadata_pid_file' = NoFile
       ELSE /\ verdict' = [verdict EXCEPT ![i] = "CorruptRecord"]
            /\ Raised(i, "CorruptRecord")
            /\ UNCHANGED metadata_pid_file
    /\ UNCHANGED <<platform, hbase_conf_dir, storage_backend,
                   table, pid, process, overlapped>>

\* Lines 82-87: POSIX branch; (int)(pid) raises ValueError on bad text.
CheckPosix(i) ==
    /\ pc[i] = "probe"
    /\ ON_POSIX
    /\ IF PyInt(pid[i]).ok
       THEN \E alive \in unix_exist_pid(PyInt(pid[i]).val) :
               IF alive THEN server_already_running(i)
                        ELSE server_pid_not_running(i)
       ELSE /\ verdict' = [verdict EXCEPT ![i] = "CorruptRecord"]
            /\ Raised(i, "CorruptRecord")
    /\ UNCHANGED <<platform, hbase_conf_dir, storage_backend, metadata_pid_file,
                   table, pid, process, overlapped>>

\* Variant of CheckWindows: the two branches of the liveness test swapped.
CheckWindows_Swapped(i) ==
    /\ pc[i] = "probe"
    /\ ~ON_POSIX
    /\ IS_WINDOWS
    /\ \E alive \in win_exist_pid(pid[i]) :
          IF alive THEN server_pid_not_running(i)
                   ELSE server_already_running(i)
    /\ UNCHANGED <<platform, hbase_conf_dir, storage_backend, metadata_pid_file,
                   table, pid, process, overlapped>>

\* Lines 90-95: Windows branch; the text is passed on as read.
CheckWindows(i) ==
    /\ pc[i] = "probe"
    /\ ~ON_POSIX
    /\ IS_WINDOWS
    /\ \E alive \in win_exist_pid(pid[i]) :
          IF alive THEN server_already_running(i)
                   ELSE server_pid_not_running(i)
    /\ UNCHANGED <<platform, hbase_conf_dir, storage_backend, metadata_pid_file,
                   table, pid, process, overlapped>>

\* Variant of CheckOther: the record is reported as not running and the start
\* goes on.
CheckOther_AsStale(i) ==
    /\ pc[i] = "probe"
    /\ ~ON_POSIX
    /\ ~IS_WINDOWS
    /\ server_pid_not_running(i)
    /\ UNCHANGED <<platform, hbase_conf_dir, storage_backend, metadata_pid_file,
                   table, pid, process, overlapped>>

\* Lines 97-99: any other platform; the record counts as running.
CheckOther(i) ==
    /\ pc[i] = "probe"
    /\ ~ON_POSIX
    /\ ~IS_WINDOWS
    /\ server_already_running(i)
    /\ UNCHANGED <<platform, hbase_conf_dir, storage_backend, metadata_pid_file,
                   table, pid, process, overlapped>>

\* Variant of Java: a failed launch removes the PID file.
Java_Cleanup(i) ==
    /\ pc[i] = "launch"
    /\ \/ \E p \in Pids :
             /\ table[p] = "free"
             /\ table' = [table EXCEPT ![p] = "sub"]
             /\ process' = [process EXCEPT ![i] = p]
             /\ pc' = [pc EXCEPT ![i] = "write"]
             /\ UNCHANGED <<outcome, returncode, metadata_pid_file>>
       \/ /\ Raised(i, "LaunchFailed")
          /\ metadata_pid_file' = NoFile
          /\ UNCHANGED <<table, process>>
    /\ UNCHANGED <<platform, hbase_conf_dir, storage_backend,
                   pid, verdict, overlapped>>

\* Line 106: mc.java creates the server process and returns it, or raises
\* when the process cannot be created.
Java(i) ==
    /\ pc[i] = "launch"
    /\ \/ \E p \in Pids :
             /\ table[p] = "free"
             /\ table' = [table EXCEPT ![p] = "sub"]
             /\ process' = [process EXCEPT ![i] = p]
             /\ pc' = [pc EXCEPT ![i] = "write"]
             /\ UNCHANGED <<outcome, returncode>>
       \/ /\ Raised(i, "LaunchFailed")
          /\ UNCHANGED <<table, process>>
    /\ UNCHANGED <<platform, hbase_conf_dir, storage_backend, metadata_pid_file,
                   pid, verdict, overlapped>>

\* Variant of WritePid: the text read from the old record (the variable pid)
\* is written instead of the pid of the new process.
WritePid_OldPid(i) ==
    /\ pc[i] = "write"
    /\ \/ /\ metadata_pid_file' = pid[i]
          /\ Returned(i, "Recorded")
       \/ /\ Raised(i, "PersistFailed")
          /\ UNCHANGED metadata_pid_file
    /\ UNCHANGED <<platform, hbase_conf_dir, storage_backend, table,
                   pid, verdict, process, overlapped>>

\* Lines 107-109: mc.writePid records the pid of the process just created and
\* main ends; or the write raises and the file is left as it was.
WritePid(i) ==
    /\ pc[i] = "write"
    /\ \/ /\ metadata_pid_file' = writePid(process[i])
          /\ Returned(i, "Recorded")
       \/ /\ Raised(i, "PersistFailed")
          /\ UNCHANGED metadata_pid_file
    /\ UNCHANGED <<platform, hbase_conf_dir, storage_backend, table,
                   pid, verdict, process, overlapped>>

(* ---------------------------- environment ----------------------------- *)
\* A live process (the server or an unrelated one) terminates; its pid becomes
\* free and may be given to a later server process.
ProcessExit(p) ==
    /\ table[p] # "free"
    /\ table' = [table EXCEPT ![p] = "free"]
    /\ UNCHANGED <<platform, hbase_conf_dir, storage_backend, metadata_pid_file,
                   pc, pid, verdict, process, outcome, returncode, overlapped>>

Next ==
    \/ \E i \in Invs : HBaseConf(i)
    \/ \E i \in Invs : ReadPidFile(i)
    \/ \E i \in Invs : CheckPosix(i)
    \/ \E i \in Invs : CheckWindows(i)
    \/ \E i \in Invs : CheckOther(i)
    \/ \E i \in Invs : Java(i)
    \/ \E i \in Invs : WritePid(i)
    \/ \E p \in Pids : ProcessExit(p)

Spec == Init /\ [][Next]_vars

TypeOK ==
    /\ platform \in Platforms
    /\ pc \in [Invs -> {"start", "check", "probe", "launch", "write", "done"}]
    /\ table \in [Pids -> {"free", "foreign", "sub"}]
    /\ \A i \in Invs : process[i] \in Pids \cup {0}
(* ---------------------------- properties ------------------------------ *)
Supported == platform \in {"posix", "nt"}

Failures == {"Refused", "CorruptRecord", "LaunchFailed", "PersistFailed"}

\* The text names a positive integer.
IsPositiveInt(text) == PyInt(text).ok /\ PyInt(text).val > 0

\* The text is the decimal form of the pid of a live process.
NamesLive(text) == \E p \in Pids : text = Str(p) /\ Live(p)

\* Invocation i has passed the check of an existing record.
Checked(i) == verdict[i] \notin {"none", "NoRecord"}

\* C1 (as claimed): under any interleaving of the invocations, at most one
\* process launched by the script is live at any time.
C1_AtMostOneLive == Cardinality(LiveSubordinates) <= 1

\* C1 (amended): as long as no invocation has begun while another one was
\* still running and no invocation has failed to record the pid of a process
\* it created, at most one process launched by the script is live.
C1_AtMostOneLiveSequential ==
    (~overlapped /\ \A i \in Invs : outcome[i] # "PersistFailed")
        => Cardinality(LiveSubordinates) <= 1

C1_Witness ==
    /\ ~overlapped
    /\ Cardinality(LiveSubordinates) = 1
    /\ \E i, j \in Invs :
          /\ outcome[i] = "Recorded"
          /\ outcome[j] = "Refused"
          /\ pid[j] = Str(process[i])

\* C2: on POSIX or Windows, an invocation that probes a record holding the
\* pid of a live process classifies it as Running and ends Refused: it creates
\* no process, neither then nor later, and leaves the PID file as it is.
C2_LiveRecordRefused ==
    [][\A i \in Invs :
          /\ (pc[i] = "probe" /\ pc'[i] # "probe" /\ Supported /\ NamesLive(pid[i]))
                => /\ verdict'[i] = "Running"
                   /\ outcome'[i] = "Refused"
                   /\ pc'[i] = "done"
                   /\ process'[i] = 0
                   /\ table' = table
                   /\ metadata_pid_file' = metadata_pid_file
          /\ (outcome[i] = "Refused" => process'[i] = 0 /\ pc'[i] = "done")]_vars

C2_Witness ==
    \E i \in Invs :
        /\ Supported
        /\ outcome[i] = "Refused"
        /\ NamesLive(pid[i])
        /\ Strip(metadata_pid_file) = pid[i]

\* C3 (as claimed): on every platform, an invocation that has checked an
\* existing PID file whose content is not a positive integer ends in
\* CorruptRecord, with no verdict of Running or Stale and no launch.
C3_CorruptRecord ==
    \A i \in Invs :
        (Checked(i) /\ ~IsPositiveInt(pid[i]))
            => /\ verdict[i] = "CorruptRecord"
               /\ outcome[i] = "CorruptRecord"
               /\ process[i] = 0

\* C4: an invocation whose check gave NoRecord or Stale goes on to the launch,
\* and when the launch and the write succeed it ends Recorded with the PID
\* file holding exactly the decimal pid of the process it created.
C4_Recorded ==
    [][\A i \in Invs :
          /\ (pc[i] = "write" /\ pc'[i] = "done" /\ outcome'[i] # "PersistFailed")
                => /\ verdict[i] \in {"NoRecord", "Stale"}
                   /\ outcome'[i] = "Recorded"
                   /\ process[i] \in Pids
                   /\ metadata_pid_file' = Str(process[i])
          /\ (verdict'[i] \in {"NoRecord", "Stale"})
                => /\ pc'[i] \in {"launch", "write", "done"}
                   /\ pc'[i] = "done"
                         => outcome'[i] \in {"Recorded", "LaunchFailed", "PersistFailed"}]_vars

C4_Witness ==
    \E i \in Invs :
        /\ verdict[i] = "Stale"
        /\ outcome[i] = "Recorded"
        /\ pid[i] # Str(process[i])
        /\ metadata_pid_file = Str(process[i])

\* C5: on a platform that is neither POSIX nor Windows, every invocation that
\* finds the PID file goes to the check, and the check gives Running whether
\* or not the recorded process is live: the invocation ends Refused and
\* creates no process.
C5_OtherPlatformRefuses ==
    [][platform = "other" =>
          \A i \in Invs :
             /\ (pc[i] = "check" /\ pc'[i] # "check" /\ metadata_pid_file # NoFile)
                   => pc'[i] = "probe"
             /\ (pc[i] = "probe" /\ pc'[i] # "probe")
                   => /\ verdict'[i] = "Running"
                      /\ outcome'[i] = "Refused"
                      /\ pc'[i] = "done"
                      /\ table' = table
                      /\ metadata_pid_file' = metadata_pid_file
             /\ (Checked(i) => process[i] = 0 /\ process'[i] = 0)]_vars

C5_Witness ==
    \E i \in Invs :
        /\ platform = "other"
        /\ outcome[i] = "Refused"
        /\ \E p \in Pids : pid[i] = Str(p) /\ ~Live(p)
        /\ Strip(metadata_pid_file) = pid[i]

\* C6 (as claimed): an invocation that created the process but could not
\* record its pid ends with an exit status different from that of an
\* invocation whose process was never created, while the process it created
\* was left running and the PID file does not name it.
C6_PersistFailedDistinct ==
    \A i \in Invs :
        outcome[i] = "PersistFailed"
            => \A j \in Invs :
                  outcome[j] = "LaunchFailed"
                     => ExitStatus(returncode[i]) # ExitStatus(returncode[j])

\* C7: an invocation that ends Refused, CorruptRecord, LaunchFailed or
\* PersistFailed exits with a non-zero status; one that ends Recorded exits
\* with status zero.
C7_ExitStatus ==
    \A i \in Invs :
        pc[i] = "done"
            => /\ outcome[i] \in Failures => ExitStatus(returncode[i]) # 0
               /\ outcome[i] = "Recorded" => ExitStatus(returncode[i]) = 0

C7_Witness ==
    \E i, j \in Invs :
        /\ outcome[i] = "Recorded"
        /\ ExitStatus(returncode[i]) = 0
        /\ outcome[j] \in Failures
        /\ ExitStatus(returncode[j]) = 255

\* C8: no step of the check phase (reading the PID file, probing the recorded
\* process) changes the existence or the content of the PID file.
C8_CheckLeavesFile ==
    [][(\E i \in Invs : pc[i] \in {"check", "probe"} /\ pc'[i] # pc[i])
          => metadata_pid_file' = metadata_pid_file]_vars

C8_Witness ==
    \E i \in Invs :
        /\ verdict[i] = "Stale"
        /\ pc[i] = "launch"
        /\ metadata_pid_file # NoFile
        /\ Strip(metadata_pid_file) = pid[i]

\* C9: every step that creates or changes the PID file is the write of an
\* invocation that created a process and ends Recorded, and the new content is
\* the decimal pid of that process; the step in which an invocation ends
\* Refused, CorruptRecord or LaunchFailed leaves the file as it is.
C9_OnlyLaunchWrites ==
    [][/\ metadata_pid_file' # metadata_pid_file
          => \E i \in Invs :
                /\ pc[i] = "write"
                /\ outcome'[i] = "Recorded"
                /\ process[i] \in Pids
                /\ metadata_pid_file' = Str(process[i])
       /\ \A i \in Invs :
             (outcome[i] = "none"
                 /\ outcome'[i] \in {"Refused", "CorruptRecord", "LaunchFailed"})
                => metadata_pid_file' = metadata_pid_file]_vars

C9_Witness ==
    \E i, j \in Invs :
        /\ outcome[i] = "LaunchFailed"
        /\ verdict[i] = "Stale"
        /\ outcome[j] = "Recorded"
        /\ pid[i] # Str(process[j])
        /\ metadata_pid_file = Str(process[j])

\* C10: when the HBase configuration directory is missing and the backend is
\* hbase, the invocation fails before the PID file is read: no check, no
\* process, PID file unchanged, non-zero exit status.  When the directory is
\* missing and the backend is not hbase, it goes on to the PID-file check.
C10_HBaseConf ==
    [][\A i \in Invs :
          /\ (pc[i] = "start" /\ pc'[i] # "start" /\ ~hbase_conf_dir)
                => IF storage_backend
                   THEN /\ outcome'[i] = "ConfigError"
                        /\ pc'[i] = "done"
                        /\ ExitStatus(returncode'[i]) # 0
                        /\ metadata_pid_file' = metadata_pid_file
                        /\ table' = table
                   ELSE pc'[i] = "check" /\ outcome'[i] = "none"
          /\ (outcome[i] = "ConfigError")
                => /\ verdict'[i] = "none"
                   /\ pid'[i] = <<>>
                   /\ process'[i] = 0
                   /\ pc'[i] = "done"]_vars

C10_Witness ==
    \E i \in Invs :
        /\ ~hbase_conf_dir
        /\ storage_backend
        /\ outcome[i] = "ConfigError"
        /\ ExitStatus(returncode[i]) = 255
        /\ metadata_pid_file # NoFile
====
